---- MODULE Spec2Model ----
(***************************************************************************)
(* Port-lifecycle monitoring and forwarding reconciliation.                *)
(*                                                                         *)
(*   port-monitor (apps/port-monitor, TypeScript): a continuous listing    *)
(*   child whose output lines add keys to boundPorts and emit `bound`, and *)
(*   a 5 s timer whose one-shot listing removes keys and emits `unbound`.  *)
(*                                                                         *)
(*   port-forward-manager (bash): reads the events line by line from a     *)
(*   FIFO, starts one tunnel process per bound TCP port, records it as     *)
(*   `port:pid` in the PID file, stops it on unbound, and kills every      *)
(*   recorded tunnel in its EXIT/INT/TERM traps.                           *)
(***************************************************************************)
EXTENDS Integers, Sequences, FiniteSets, Bags, TLC

VARIABLES
    \* ---- port-monitor (remote side) ----
    os,                 \* platform(): "linux" | "darwin"
    listening,          \* sockets listening on the remote host right now
    contLines,          \* output lines of the continuous listing child not yet handled
    boundPorts,         \* the Set<string> boundPorts, in insertion order
    passes,             \* the reconciliation listings in flight: the bag of their currentPorts
    opens,              \* how many times a port was opened on the remote host
    lastEmit,           \* history: per key, the action of the last port event emitted
    filtered,           \* history: keys of the lines the line handler dropped as well-known
    monitor,            \* the continuous listing child: "running" | "restart" (it closed
                        \* with a non-zero code and the 5 s restart delay runs) |
                        \* "closed" (it closed with code 0) | "none"
    timers,             \* the number of active setInterval timers of checkForUnboundPorts
    \* ---- transport ----
    fifo,               \* lines written to the FIFO and not yet read
    writerOpen,         \* the write side of the FIFO is still open
    nlines,             \* lines written by the writer of the manager-only specification
    frag,               \* the bytes written after the last line separator: <<>>, or one
                        \* fragment [text, whole]
    \* ---- port-forward-manager (local side) ----
    setup,              \* "ok" | "noparam" | "nofifo": what the script finds at startup
    pc,                 \* position of the script
    stage,              \* "run" | "INT" | "TERM" | "exit" | "gone": which trap, if any, is running
    exitCode,           \* the exit status, -1 while none was chosen
    pidFile,            \* PORT_FORWARDS_PID_FILE: [exists, lines], a line is [port, pid]
    tmpFile,            \* ${PORT_FORWARDS_PID_FILE}.tmpstop.$$
    copyFile,           \* ${PORT_FORWARDS_PID_FILE}.toclean.$$
    PORT_FORWARD_LIST,  \* the local list, a sequence of ports
    procs,              \* the process table: pid -> [st, child, port, termed]
    cur,                \* locals of the function running: [port, pid, idx, found]
    \* ---- history variables of the manager ----
    evt,                \* the event being processed, with the PID file it started from
    killed,             \* pids the manager signalled since it read the current event
    hist,               \* per port, the last two TCP actions whose processing completed
    storeEmptyAtStart,  \* the PID file held no record when the manager started
    startFailed,        \* some tunnel start was found dead after the grace delay
    trigger,            \* what made the manager leave its read loop, "none" while in it
    \* ---- ado-gh-session ----
    session             \* [pc, auth, fifoFile]: position of cleanup, auth service alive,
                        \* the FIFO exists

monVars == <<os, listening, contLines, boundPorts, passes, opens, lastEmit, filtered,
             monitor, timers>>
chanVars == <<fifo, writerOpen, nlines, frag>>
mgrVars == <<setup, pc, stage, exitCode, pidFile, tmpFile, copyFile,
             PORT_FORWARD_LIST, procs, cur>>
ghostVars == <<evt, killed, hist, storeEmptyAtStart, startFailed, trigger>>
vars == <<monVars, chanVars, mgrVars, ghostVars, session>>

----------------------------------------------------------------------------
\* Bounds of the model.

\* lines the writer of the manager-only specification writes in one run
MaxLines == 3
\* lines the FIFO holds unread
MaxFifo == 2
\* reconciliation listings in flight at once
MaxPasses == 2
\* times a port is opened on the remote host in one run
MaxOpens == 2
\* times the continuous listing child is restarted in one run
MaxRestarts == 2

\* ports of the events written in the manager-only specification; 80 is a
\* substring of 8080
MgrPorts == {80, 8080}
\* ports the history follows
TrackPorts == MgrPorts \cup {3000}
\* pids: the process table has one slot more than there are ports
Pids == 1 .. (Cardinality(MgrPorts) + 1)

----------------------------------------------------------------------------
\* Sequences and decimal strings.

Range(s) == {s[i] : i \in 1 .. Len(s)}

RECURSIVE Digits(_)
\* the decimal digits of n, as "$port" expands
Digits(n) == IF n < 10 THEN <<n>> ELSE Append(Digits(n \div 10), n % 10)

\* a occurs in b as a contiguous substring
IsSubstr(a, b) ==
    \E i \in 0 .. (Len(b) - Len(a)) : SubSeq(b, i + 1, i + Len(a)) = a

\* the last two elements of s
LastTwo(s) == IF Len(s) <= 2 THEN s ELSE SubSeq(s, Len(s) - 1, Len(s))

----------------------------------------------------------------------------
\* The event wire format: one JSON object per line.  A line is modelled by what
\* jq reads from it: whether it parses, and the fields .type, .action, .port,
\* .protocol ("null" where the object has no such member).

PortEvent(a, p, proto) ==
    [type |-> "port", action |-> a, port |-> p, protocol |-> proto]
ErrorEvent == [type |-> "error", action |-> "null", port |-> 0, protocol |-> "null"]

\* console.log(JSON.stringify(event)): the line the monitor writes for an event
sendMessage(event) ==
    [kind |-> "json", type |-> event.type, action |-> event.action,
     port |-> event.port, protocol |-> event.protocol]

\* a line that is valid JSON with a type the manager does not know
UnknownLine ==
    [kind |-> "json", type |-> "status", action |-> "null", port |-> 0,
     protocol |-> "null"]
\* a line that is not JSON
GarbageLine ==
    [kind |-> "garbage", type |-> "", action |-> "", port |-> 0, protocol |-> ""]

\* jq -e . succeeds on the line
IsJson(line) == line.kind = "json"

\* mutant: the protocol of a port event is not looked at
EventClass_AnyProtocol(line) ==
    IF ~IsJson(line) THEN "nonjson"
    ELSE IF line.type = "port" THEN
        (IF line.action = "bound" THEN "forward"
         ELSE IF line.action = "unbound" THEN "stop"
         ELSE "noaction")
    ELSE IF line.type = "error" THEN "error"
    ELSE "unrecognized"

\* the branch of the main loop's if/elif chain that the line takes
EventClass(line) ==
    IF ~IsJson(line) THEN "nonjson"
    ELSE IF line.type = "port" /\ line.protocol = "tcp" THEN
        (IF line.action = "bound" THEN "forward"
         ELSE IF line.action = "unbound" THEN "stop"
         ELSE "noaction")
    ELSE IF line.type = "error" THEN "error"
    ELSE IF line.type = "port" /\ line.protocol /= "tcp" THEN "nontcp"
    ELSE "unrecognized"

----------------------------------------------------------------------------
\* Files, the local list and the process table of port-forward-manager.

NoFile == [exists |-> FALSE, lines |-> <<>>]
File(ls) == [exists |-> TRUE, lines |-> ls]
Record(p, pid) == [port |-> p, pid |-> pid]

\* the ports with a record in file f
RecordPorts(f) == {f.lines[i].port : i \in 1 .. Len(f.lines)}
\* the pids recorded in file f
RecordPids(f) == {f.lines[i].pid : i \in 1 .. Len(f.lines)}
\* the number of lines of f for port p
CountRecords(f, p) == Cardinality({i \in 1 .. Len(f.lines) : f.lines[i].port = p})

\* mutant: only the first line of the PID file is looked at
HasRecord_FirstLineOnly(f, p) ==
    f.exists /\ f.lines /= <<>> /\ f.lines[1].port = p

\* grep -q "^$port:" "$PORT_FORWARDS_PID_FILE" 2>/dev/null
HasRecord(f, p) == f.exists /\ p \in RecordPorts(f)

\* [[ " $PORT_FORWARD_LIST " == *"$port"* ]]: a substring test with no spaces
\* around the port, so 80 matches a list holding 8080
ListHasSubstr(list, p) ==
    \E i \in 1 .. Len(list) : IsSubstr(Digits(p), Digits(list[i]))

\* [[ " $PORT_FORWARD_LIST " == *" $port "* ]]: the port is a word of the list
ListHasWord(list, p) == \E i \in 1 .. Len(list) : list[i] = p

RECURSIVE SedScan(_, _, _)
\* sed "s/ $port / /g" on " $list ": a match consumes the space after it, so
\* the word right after a removed word is never removed
SedScan(list, p, prevRemoved) ==
    IF list = <<>> THEN <<>>
    ELSE IF Head(list) = p /\ ~prevRemoved THEN SedScan(Tail(list), p, TRUE)
    ELSE <<Head(list)>> \o SedScan(Tail(list), p, FALSE)

\* echo " $PORT_FORWARD_LIST " | sed "s/ $port / /g" | xargs
SedRemove(list, p) == SedScan(list, p, FALSE)

FreeProc == [st |-> "free", child |-> FALSE, port |-> 0, termed |-> FALSE]
\* mutant: the tunnel process never comes up
Tunnel_Stillborn(p) == [st |-> "dead", child |-> TRUE, port |-> p, termed |-> FALSE]

\* the process started by `gh cs ssh ... -N -L port:localhost:port &`
Tunnel(p) == [st |-> "alive", child |-> TRUE, port |-> p, termed |-> FALSE]
\* a process this manager did not start, named by a record found at startup
Foreign(p, s) == [st |-> s, child |-> FALSE, port |-> p, termed |-> FALSE]

\* pids the system can hand out: never used, or dead and named by no file
AvailPids ==
    {pid \in Pids :
        \/ procs[pid].st = "free"
        \/ /\ procs[pid].st = "dead"
           /\ pid \notin RecordPids(pidFile) \cup RecordPids(copyFile)}
\* $! of the tunnel just started
NewPid == CHOOSE pid \in AvailPids : \A q \in AvailPids : pid <= q

\* kill -0 "$pid"
IsAlive(pid) == procs[pid].st = "alive"

\* kill "$pid" 2>/dev/null || true: SIGTERM reaches the process if it is alive
Kill(pid) ==
    /\ procs' = [procs EXCEPT ![pid].termed = (@ \/ IsAlive(pid))]
    /\ killed' = killed \cup {pid}

\* mutant: the script does not wait for the process it signalled
WaitReturns_NoWait(pid) == TRUE

\* wait "$pid" 2>/dev/null || true returns: at once for a process that is not
\* a child of this shell, else when the child has terminated
WaitReturns(pid) == ~procs[pid].child \/ ~IsAlive(pid)

\* the child tunnels alive
LiveTunnels == {pid \in Pids : procs[pid].child /\ IsAlive(pid)}

IdleCur == [port |-> 0, pid |-> 0, idx |-> 0, found |-> FALSE]
\* the pids of the processes that have terminated
DeadPids == {pid \in Pids : procs[pid].st = "dead"}

NoEvt == [act |-> "none", port |-> 0, file0 |-> NoFile, dead0 |-> {}]
\* history: event act for port p is read with the PID file and the dead
\* processes as they are now
Reading(act, p) == [act |-> act, port |-> p, file0 |-> pidFile, dead0 |-> DeadPids]

\* history: the processing of TCP event act for port p ends
Complete(act, p) ==
    /\ hist' = [hist EXCEPT ![p] = LastTwo(Append(@, act))]
    /\ evt' = NoEvt

----------------------------------------------------------------------------
\* port-forward-manager: the main script.

\* lines 28-37 and 230-235: a missing parameter exits 1 before the traps are
\* set; a missing FIFO exits 1 with the EXIT trap set
Setup ==
    /\ pc = "start"
    /\ IF setup = "noparam"
       THEN pc' = "exited" /\ stage' = "gone" /\ exitCode' = 1
       ELSE IF setup = "nofifo"
       THEN pc' = "cl_begin" /\ stage' = "exit" /\ exitCode' = 1
       ELSE pc' = "loop" /\ UNCHANGED <<stage, exitCode>>
    /\ trigger' = IF setup = "ok" THEN trigger ELSE setup
    /\ UNCHANGED <<setup, pidFile, tmpFile, copyFile, PORT_FORWARD_LIST, procs, cur>>
    /\ UNCHANGED <<monVars, chanVars, evt, killed, hist, storeEmptyAtStart, startFailed>>
    /\ UNCHANGED session

\* mutant: a port found in the local list is taken to be forwarded
Spawns_TrustsList(list, f, p) ==
    IF ListHasSubstr(list, p) THEN FALSE
    ELSE ~HasRecord(f, p)

\* forward_port, lines 116-136: with the local list at list and the PID file at
\* f, the function goes on to start a tunnel for port p
Spawns(list, f, p) ==
    IF ListHasSubstr(list, p) /\ HasRecord(f, p) THEN FALSE
    ELSE IF HasRecord(f, p) THEN FALSE
    ELSE TRUE

\* forward_port, lines 110-142: the checks against the local list and the PID
\* file, then the start of the tunnel process
forward_port(p) ==
    LET inList == ListHasSubstr(PORT_FORWARD_LIST, p)
        inFile == ~Spawns(PORT_FORWARD_LIST, pidFile, p)
        \* line 124: the list was stale
        list1 == IF inList /\ ~inFile THEN SedRemove(PORT_FORWARD_LIST, p)
                 ELSE PORT_FORWARD_LIST
    IN  IF inFile
        THEN \* return 0 at line 121 or, after lines 131-134, at line 135
             /\ PORT_FORWARD_LIST' = IF inList THEN PORT_FORWARD_LIST
                                     ELSE Append(PORT_FORWARD_LIST, p)
             /\ pc' = "loop"
             /\ Complete("bound", p)
             /\ UNCHANGED <<procs, cur>>
        ELSE \* lines 141-142
             /\ AvailPids /= {}
             /\ PORT_FORWARD_LIST' = list1
             /\ procs' = [procs EXCEPT ![NewPid] = Tunnel(p)]
             /\ cur' = [IdleCur EXCEPT !.port = p, !.pid = NewPid]
             /\ pc' = "fwd_sleep"
             /\ evt' = Reading("bound", p)
             /\ UNCHANGED hist

\* stop_forwarding_port, lines 164-183: no PID file, or the temp file is made
stop_forwarding_port(p) ==
    IF ~pidFile.exists
    THEN \* lines 171-179
         /\ PORT_FORWARD_LIST' = IF ListHasWord(PORT_FORWARD_LIST, p)
                                 THEN SedRemove(PORT_FORWARD_LIST, p)
                                 ELSE PORT_FORWARD_LIST
         /\ pc' = "loop"
         /\ Complete("unbound", p)
         /\ UNCHANGED <<tmpFile, cur>>
    ELSE \* lines 182-183
         /\ tmpFile' = File(<<>>)
         /\ cur' = [IdleCur EXCEPT !.port = p, !.idx = 1]
         /\ pc' = IF Len(pidFile.lines) = 0 THEN "stop_mv" ELSE "stop_scan"
         /\ evt' = Reading("unbound", p)
         /\ UNCHANGED <<PORT_FORWARD_LIST, hist>>

\* mutant: a line that is no TCP port event ends the loop
DiscardLine_Break(class) ==
    /\ pc' = "cl_begin"
    /\ evt' = [NoEvt EXCEPT !.act = class]
    /\ UNCHANGED <<pidFile, tmpFile, PORT_FORWARD_LIST, procs, cur, hist>>

\* lines 249-252 and 267-277: a line that is no TCP port event is logged (or
\* silently ignored) and the loop goes on with the next line
DiscardLine(class) ==
    /\ pc' = "loop"
    /\ evt' = [NoEvt EXCEPT !.act = class]
    /\ UNCHANGED <<pidFile, tmpFile, PORT_FORWARD_LIST, procs, cur, hist>>

\* lines 247-278, the body of the main loop: classify the line and enter the
\* function it asks for
Dispatch(line) ==
    LET class == EventClass(line)
    IN  IF class = "forward"
        THEN forward_port(line.port) /\ UNCHANGED <<pidFile, tmpFile>>
        ELSE IF class = "stop"
        THEN stop_forwarding_port(line.port) /\ UNCHANGED <<pidFile, procs>>
        ELSE DiscardLine(class)

\* lines 237-280, one turn of the main loop: read a line, classify it, and
\* enter the function it asks for
ReadLine ==
    /\ pc = "loop" /\ stage = "run"
    /\ fifo /= <<>>
    /\ fifo' = Tail(fifo)
    /\ killed' = {}
    /\ Dispatch(Head(fifo))
    /\ UNCHANGED <<setup, stage, exitCode, copyFile, writerOpen, nlines, frag>>
    /\ UNCHANGED <<monVars, storeEmptyAtStart, startFailed, trigger>>
    /\ UNCHANGED session

\* mutant: the tunnel is recorded without the kill -0 test
FwdCheck_NoAliveTest ==
    /\ pc = "fwd_sleep" /\ stage = "run"
    /\ pidFile' = File(Append(pidFile.lines, Record(cur.port, cur.pid)))
    /\ PORT_FORWARD_LIST' = Append(PORT_FORWARD_LIST, cur.port)
    /\ UNCHANGED startFailed
    /\ pc' = "loop"
    /\ cur' = IdleCur
    /\ Complete("bound", cur.port)
    /\ UNCHANGED <<setup, stage, exitCode, tmpFile, copyFile, procs>>
    /\ UNCHANGED <<monVars, chanVars, killed, storeEmptyAtStart, trigger>>
    /\ UNCHANGED session

\* forward_port, lines 145-160: after the grace delay, record the tunnel if it
\* is alive
FwdCheck ==
    /\ pc = "fwd_sleep" /\ stage = "run"
    /\ IF IsAlive(cur.pid)
       THEN /\ pidFile' = File(Append(pidFile.lines, Record(cur.port, cur.pid)))
            /\ PORT_FORWARD_LIST' = Append(PORT_FORWARD_LIST, cur.port)
            /\ UNCHANGED startFailed
       ELSE /\ startFailed' = TRUE
            /\ UNCHANGED <<pidFile, PORT_FORWARD_LIST>>
    /\ pc' = "loop"
    /\ cur' = IdleCur
    /\ Complete("bound", cur.port)
    /\ UNCHANGED <<setup, stage, exitCode, tmpFile, copyFile, procs>>
    /\ UNCHANGED <<monVars, chanVars, killed, storeEmptyAtStart, trigger>>
    /\ UNCHANGED session

\* mutant: the port is matched as a substring, as the local list is
LineMatches_Substr(line, p) == IsSubstr(Digits(p), Digits(line.port))

\* line 192: [ "$current_port_in_file" = "$port_to_stop" ]
LineMatches(line, p) == line.port = p

\* where the scan of stop_forwarding_port goes after line idx
AfterLine(idx) == IF idx >= Len(pidFile.lines) THEN "stop_mv" ELSE "stop_scan"

\* stop_forwarding_port, lines 186-206, one line of the PID file: signal the
\* tunnel of the port, or copy the line to the temp file
StopScan ==
    /\ pc = "stop_scan" /\ stage = "run"
    /\ LET line == pidFile.lines[cur.idx]
       IN  IF LineMatches(line, cur.port)
           THEN /\ Kill(line.pid)
                /\ cur' = [cur EXCEPT !.pid = line.pid]
                /\ pc' = "stop_wait"
                /\ UNCHANGED tmpFile
           ELSE /\ tmpFile' = File(Append(tmpFile.lines, line))
                /\ cur' = [cur EXCEPT !.idx = @ + 1]
                /\ pc' = AfterLine(cur.idx)
                /\ UNCHANGED <<procs, killed>>
    /\ UNCHANGED <<setup, stage, exitCode, pidFile, copyFile, PORT_FORWARD_LIST>>
    /\ UNCHANGED <<monVars, chanVars, evt, hist, storeEmptyAtStart, startFailed, trigger>>
    /\ UNCHANGED session

\* stop_forwarding_port, lines 196-198: wait "$pid_to_kill" returns
StopWait ==
    /\ pc = "stop_wait" /\ stage = "run"
    /\ WaitReturns(cur.pid)
    /\ cur' = [cur EXCEPT !.idx = @ + 1, !.found = TRUE]
    /\ pc' = AfterLine(cur.idx)
    /\ UNCHANGED <<setup, stage, exitCode, pidFile, tmpFile, copyFile,
                   PORT_FORWARD_LIST, procs>>
    /\ UNCHANGED <<monVars, chanVars, ghostVars>>
    /\ UNCHANGED session

\* mutant: the PID file is seen while its last line is not yet written
MovedFile_Partial ==
    File(IF tmpFile.lines = <<>> THEN <<>>
         ELSE SubSeq(tmpFile.lines, 1, Len(tmpFile.lines) - 1))

\* mutant: the temp file is appended to the PID file instead of replacing it
MovedFile_Appended == File(pidFile.lines \o tmpFile.lines)

\* line 210: mv "$temp_rewrite_pid_file" "$PORT_FORWARDS_PID_FILE"
MovedFile == File(tmpFile.lines)

\* stop_forwarding_port, lines 209-226: the temp file replaces the PID file
\* and the port leaves the local list
StopFinish ==
    /\ pc = "stop_mv" /\ stage = "run"
    /\ pidFile' = MovedFile
    /\ tmpFile' = NoFile
    /\ PORT_FORWARD_LIST' =
           IF cur.found THEN SedRemove(PORT_FORWARD_LIST, cur.port)
           ELSE IF ListHasWord(PORT_FORWARD_LIST, cur.port)
           THEN SedRemove(PORT_FORWARD_LIST, cur.port)
           ELSE PORT_FORWARD_LIST
    /\ pc' = "loop"
    /\ cur' = IdleCur
    /\ Complete("unbound", cur.port)
    /\ UNCHANGED <<setup, stage, exitCode, copyFile, procs>>
    /\ UNCHANGED <<monVars, chanVars, killed, storeEmptyAtStart, startFailed, trigger>>
    /\ UNCHANGED session

\* mutant: at the end of input the script ends without running its EXIT trap
EndOfInput_SkipsCleanup ==
    /\ pc = "loop" /\ stage = "run"
    /\ fifo = <<>> /\ frag = <<>> /\ ~writerOpen
    /\ pc' = "exited" /\ stage' = "gone" /\ exitCode' = 0
    /\ trigger' = "eof"
    /\ UNCHANGED <<setup, pidFile, tmpFile, copyFile, PORT_FORWARD_LIST, procs, cur>>
    /\ UNCHANGED <<monVars, chanVars, evt, killed, hist, storeEmptyAtStart, startFailed>>
    /\ UNCHANGED session

\* lines 237 and 280-283: read finds the FIFO closed with no byte left; the
\* script ends and the EXIT trap runs
EndOfInput ==
    /\ pc = "loop" /\ stage = "run"
    /\ fifo = <<>> /\ frag = <<>> /\ ~writerOpen
    /\ pc' = "cl_begin" /\ stage' = "exit" /\ exitCode' = 0
    /\ trigger' = "eof"
    /\ UNCHANGED <<setup, pidFile, tmpFile, copyFile, PORT_FORWARD_LIST, procs, cur>>
    /\ UNCHANGED <<monVars, chanVars, evt, killed, hist, storeEmptyAtStart, startFailed>>
    /\ UNCHANGED session

\* the positions at which bash runs a trap: between two commands, or out of a
\* blocked read or wait
Interruptible == {"loop", "fwd_sleep", "stop_scan", "stop_wait", "stop_mv"}

\* the signals the script traps
Signals == {"INT", "TERM"}

\* mutant: both traps exit with status 1
TrapExitCode_One(sig) == 1

\* lines 102-103: the status the trap of signal sig exits with
TrapExitCode(sig) == IF sig = "INT" THEN 130 ELSE 143

\* lines 102-103: the INT or TERM trap starts; the function running is abandoned
Trap(sig) ==
    /\ stage = "run" /\ pc \in Interruptible
    /\ pc' = "cl_begin" /\ stage' = sig
    /\ trigger' = sig
    /\ cur' = IdleCur
    /\ evt' = NoEvt
    /\ killed' = {}
    /\ UNCHANGED <<setup, exitCode, pidFile, tmpFile, copyFile, PORT_FORWARD_LIST, procs>>
    /\ UNCHANGED <<monVars, chanVars, hist, storeEmptyAtStart, startFailed>>
    /\ UNCHANGED session

\* the end of cleanup_individual_forwards: the INT/TERM trap goes on to `exit`,
\* which runs the EXIT trap; the EXIT trap ends the process
CleanupReturns ==
    IF stage \in Signals
    THEN pc' = "cl_begin" /\ stage' = "exit" /\ exitCode' = TrapExitCode(stage)
    ELSE pc' = "exited" /\ stage' = "gone" /\ UNCHANGED exitCode

\* cleanup_individual_forwards, lines 49-69: no PID file, or copy it
CleanupBegin ==
    /\ pc = "cl_begin"
    /\ IF ~pidFile.exists
       THEN CleanupReturns /\ UNCHANGED <<copyFile, cur>>
       ELSE /\ copyFile' = pidFile
            /\ cur' = [IdleCur EXCEPT !.idx = 1]
            /\ pc' = IF Len(pidFile.lines) = 0 THEN "cl_rm" ELSE "cl_scan"
            /\ UNCHANGED <<stage, exitCode>>
    /\ UNCHANGED <<setup, pidFile, tmpFile, PORT_FORWARD_LIST, procs>>
    /\ UNCHANGED <<monVars, chanVars, ghostVars>>
    /\ UNCHANGED session

\* cleanup_individual_forwards, lines 73-80: kill the pid of the next line
CleanupScan ==
    /\ pc = "cl_scan"
    /\ Kill(copyFile.lines[cur.idx].pid)
    /\ cur' = [cur EXCEPT !.pid = copyFile.lines[cur.idx].pid]
    /\ pc' = "cl_wait"
    /\ UNCHANGED <<setup, stage, exitCode, pidFile, tmpFile, copyFile, PORT_FORWARD_LIST>>
    /\ UNCHANGED <<monVars, chanVars, evt, hist, storeEmptyAtStart, startFailed, trigger>>
    /\ UNCHANGED session

\* cleanup_individual_forwards, lines 83-84: wait "$pid" returns
CleanupWait ==
    /\ pc = "cl_wait"
    /\ WaitReturns(cur.pid)
    /\ cur' = [cur EXCEPT !.idx = @ + 1]
    /\ pc' = IF cur.idx >= Len(copyFile.lines) THEN "cl_rm" ELSE "cl_scan"
    /\ UNCHANGED <<setup, stage, exitCode, pidFile, tmpFile, copyFile,
                   PORT_FORWARD_LIST, procs>>
    /\ UNCHANGED <<monVars, chanVars, ghostVars>>
    /\ UNCHANGED session

\* cleanup_individual_forwards, lines 90-95: remove the copy and the PID file
CleanupRemove ==
    /\ pc = "cl_rm"
    /\ copyFile' = NoFile
    /\ pidFile' = NoFile
    /\ cur' = IdleCur
    /\ CleanupReturns
    /\ UNCHANGED <<setup, tmpFile, PORT_FORWARD_LIST, procs>>
    /\ UNCHANGED <<monVars, chanVars, ghostVars>>
    /\ UNCHANGED session

----------------------------------------------------------------------------
\* The environment of the manager.

\* a process exits: on the signal it was sent, or on its own (the ssh
\* connection drops, the local port is taken)
ProcExit(pid) ==
    /\ IsAlive(pid)
    /\ procs' = [procs EXCEPT ![pid].st = "dead", ![pid].termed = FALSE]
    /\ UNCHANGED <<setup, pc, stage, exitCode, pidFile, tmpFile, copyFile,
                   PORT_FORWARD_LIST, cur>>
    /\ UNCHANGED <<monVars, chanVars, ghostVars>>
    /\ UNCHANGED session

\* the lines a writer can put into the FIFO
InputLines ==
    {sendMessage(PortEvent(a, p, "tcp")) : a \in {"bound", "unbound"}, p \in MgrPorts}
    \cup {sendMessage(PortEvent(a, 8080, "udp")) : a \in {"bound", "unbound"}}
    \cup {sendMessage(ErrorEvent), UnknownLine, GarbageLine}

\* some writer puts a complete line into the FIFO
WriteLine(line) ==
    /\ writerOpen /\ pc /= "exited"
    /\ frag = <<>>
    /\ nlines < MaxLines /\ Len(fifo) < MaxFifo
    /\ fifo' = Append(fifo, line)
    /\ nlines' = nlines + 1
    /\ UNCHANGED <<writerOpen, frag, monVars, mgrVars, ghostVars>>
    /\ UNCHANGED session

\* the last writer closes the FIFO
WriterClose ==
    /\ writerOpen
    /\ writerOpen' = FALSE
    /\ UNCHANGED <<fifo, nlines, frag, monVars, mgrVars, ghostVars>>
    /\ UNCHANGED session

----------------------------------------------------------------------------
\* port-monitor.  A socket is <<protocol, port>>; a PortKey `${protocol}:${port}`
\* is modelled as the pair its split(":") gives back.

\* the highest well-known port
WellKnownMax == 1023
\* mutant: every port is monitored
shouldMonitorPort_All(port) == TRUE
\* function shouldMonitorPort: well-known ports are filtered out
shouldMonitorPort(port) == port > WellKnownMax

\* the sockets of the remote host the model opens and closes
MonSockets == {<<"tcp", 22>>, <<"tcp", 3000>>, <<"tcp", 8080>>}
\* every key the differ can meet
Keys == MonSockets

\* the lines the platform's listing prints for the sockets socks: one per
\* listening TCP socket (ss, lsof and netstat output filtered on LISTEN)
Listing(socks) == {sock \in socks : sock[1] = "tcp"}

\* function parsePortInfo: on linux the protocol is taken to be tcp, elsewhere
\* it is read from the line
parsePortInfo(platform, line) ==
    LET protocol == IF platform = "linux" THEN "tcp" ELSE line[1]
    IN  [port |-> line[2], protocol |-> protocol, key |-> <<protocol, line[2]>>]

\* boundPorts.has(key)
Has(set, key) == \E i \in 1 .. Len(set) : set[i] = key

\* history: the events evs were written, in order
RECURSIVE Emitted(_, _)
Emitted(last, evs) ==
    IF evs = <<>> THEN last
    ELSE Emitted([last EXCEPT ![<<Head(evs).protocol, Head(evs).port>>] = Head(evs).action],
                 Tail(evs))

\* sendMessage for each event of evs, in order; stdout has room for them
Send(evs) ==
    /\ Len(fifo) + Len(evs) <= MaxFifo
    /\ fifo' = fifo \o [i \in 1 .. Len(evs) |-> sendMessage(evs[i])]
    /\ lastEmit' = Emitted(lastEmit, evs)

\* a process on the remote host starts listening
Open(sock) ==
    /\ sock \notin listening /\ opens < MaxOpens
    /\ listening' = listening \cup {sock}
    /\ opens' = opens + 1
    /\ UNCHANGED <<os, contLines, boundPorts, passes, lastEmit, filtered, monitor, timers>>
    /\ UNCHANGED <<chanVars, mgrVars, ghostVars>>
    /\ UNCHANGED session

\* it stops listening
Close(sock) ==
    /\ sock \in listening
    /\ listening' = listening \ {sock}
    /\ UNCHANGED <<os, contLines, boundPorts, passes, opens, lastEmit, filtered, monitor, timers>>
    /\ UNCHANGED <<chanVars, mgrVars, ghostVars>>
    /\ UNCHANGED session

\* mutant: the continuous child prints a socket once only, when it first sees it
ContSample_Once ==
    /\ monitor = "running"
    /\ {sock \in Listing(listening) : lastEmit[sock] = "none"} \ contLines /= {}
    /\ contLines' = contLines \cup {sock \in Listing(listening) : lastEmit[sock] = "none"}
    /\ UNCHANGED <<os, listening, boundPorts, passes, opens, lastEmit, filtered, monitor, timers>>
    /\ UNCHANGED <<chanVars, mgrVars, ghostVars>>
    /\ UNCHANGED session

\* getMonitorCommand, lines 46-77: the continuous child lists the sockets every
\* 2 s and its lines queue up in the pipe
ContSample ==
    /\ monitor = "running"
    /\ Listing(listening) \ contLines /= {}
    /\ contLines' = contLines \cup Listing(listening)
    /\ UNCHANGED <<os, listening, boundPorts, passes, opens, lastEmit, filtered, monitor, timers>>
    /\ UNCHANGED <<chanVars, mgrVars, ghostVars>>
    /\ UNCHANGED session

\* mutant: the handler does not ask whether the key is already bound
BoundEvents_NoHasCheck(line) ==
    LET info == parsePortInfo(os, line)
    IN  IF shouldMonitorPort(info.port)
        THEN <<PortEvent("bound", info.port, info.protocol)>>
        ELSE <<>>

\* the events of the "line" handler of startMonitoring, lines 144-162
BoundEvents(line) ==
    LET info == parsePortInfo(os, line)
    IN  IF ~Has(boundPorts, info.key) /\ shouldMonitorPort(info.port)
        THEN <<PortEvent("bound", info.port, info.protocol)>>
        ELSE <<>>

\* startMonitoring, lines 144-162: one output line of the continuous child
ContLine(line) ==
    /\ line \in contLines
    /\ contLines' = contLines \ {line}
    /\ boundPorts' = IF BoundEvents(line) /= <<>>
                     THEN Append(boundPorts, parsePortInfo(os, line).key)
                     ELSE boundPorts
    /\ Send(BoundEvents(line))
    /\ filtered' = IF shouldMonitorPort(parsePortInfo(os, line).port) THEN filtered
                   ELSE filtered \cup {parsePortInfo(os, line).key}
    /\ UNCHANGED <<os, listening, passes, opens, monitor, timers>>
    /\ UNCHANGED <<writerOpen, nlines, frag, mgrVars, ghostVars>>
    /\ UNCHANGED session

\* checkForUnboundPorts, lines 232-248: the keys a one-shot listing of socks
\* puts into currentPorts
CurrentPorts(socks) ==
    {parsePortInfo(os, line).key :
        line \in {l \in Listing(socks) : shouldMonitorPort(parsePortInfo(os, l).port)}}

\* the currentPorts of a listing that failed and printed nothing: it holds no
\* key; its one element, which is no key, keeps the failure in the history
FailedListing == {<<"failed", 0>>}

\* the values currentPorts can have when a listing of sockets among socks closes
Listings(socks) == (SUBSET socks) \cup {FailedListing}

\* startMonitoring, lines 191-193, and checkForUnboundPorts, lines 208-248:
\* the 5 s timer fires and a one-shot listing runs; it samples the sockets, or
\* fails and prints nothing
RecStart(ok) ==
    /\ timers > 0
    /\ BagCardinality(passes) < MaxPasses
    /\ passes' = passes (+) SetToBag({IF ok THEN CurrentPorts(listening)
                                      ELSE FailedListing})
    /\ UNCHANGED <<os, listening, contLines, boundPorts, opens, lastEmit, filtered, monitor, timers>>
    /\ UNCHANGED <<chanVars, mgrVars, ghostVars>>
    /\ UNCHANGED session

\* mutant: the handler finds every bound key still listening
Gone_Nothing(currentPorts) == <<>>

\* the keys the "close" handler removes, lines 252-253
Gone(currentPorts) == SelectSeq(boundPorts, LAMBDA key : key \notin currentPorts)

\* mutant: the close handler reports the keys it removes as bound
UnboundEvents_AsBound(currentPorts) ==
    LET gone == SelectSeq(Gone(currentPorts), LAMBDA key : shouldMonitorPort(key[2]))
    IN  [i \in 1 .. Len(gone) |-> PortEvent("bound", gone[i][2], gone[i][1])]

\* the events of the "close" handler of checkForUnboundPorts, lines 250-277
UnboundEvents(currentPorts) ==
    LET gone == SelectSeq(Gone(currentPorts), LAMBDA key : shouldMonitorPort(key[2]))
    IN  [i \in 1 .. Len(gone) |-> PortEvent("unbound", gone[i][2], gone[i][1])]

\* checkForUnboundPorts, lines 250-280: a listing in flight has closed, with
\* currentPorts as its lines left it
RecClose(currentPorts) ==
    /\ BagIn(currentPorts, passes)
    /\ boundPorts' = SelectSeq(boundPorts,
                               LAMBDA key : ~Has(Gone(currentPorts), key))
    /\ Send(UnboundEvents(currentPorts))
    /\ passes' = passes (-) SetToBag({currentPorts})
    /\ UNCHANGED <<os, listening, contLines, opens, filtered, monitor, timers>>
    /\ UNCHANGED <<writerOpen, nlines, frag, mgrVars, ghostVars>>
    /\ UNCHANGED session

\* the codes the continuous child can close with
ExitCodes == {0, 1}

\* startMonitoring, lines 174-187: the continuous child closes; on a non-zero
\* code an error is logged and a restart is set for 5 s later
MonitorClose(code) ==
    /\ monitor = "running"
    /\ IF code /= 0
       THEN /\ Len(fifo) < MaxFifo
            /\ fifo' = Append(fifo, sendMessage(ErrorEvent))
            /\ monitor' = "restart"
       ELSE /\ fifo' = fifo
            /\ monitor' = "closed"
    /\ UNCHANGED <<os, listening, contLines, boundPorts, passes, opens, lastEmit, filtered,
                   timers>>
    /\ UNCHANGED <<writerOpen, nlines, frag, mgrVars, ghostVars>>
    /\ UNCHANGED session

\* lines 183-185 and 133-193: the restart delay is over and startMonitoring
\* runs again: it spawns a new child and calls setInterval once more
Restart ==
    /\ monitor = "restart" /\ timers <= MaxRestarts
    /\ monitor' = "running"
    /\ timers' = timers + 1
    /\ UNCHANGED <<os, listening, contLines, boundPorts, passes, opens, lastEmit, filtered>>
    /\ UNCHANGED <<chanVars, mgrVars, ghostVars>>
    /\ UNCHANGED session

\* the reader at the other end of stdout takes the oldest line
Drain ==
    /\ fifo /= <<>>
    /\ fifo' = Tail(fifo)
    /\ UNCHANGED <<writerOpen, nlines, frag, monVars, mgrVars, ghostVars>>
    /\ UNCHANGED session

----------------------------------------------------------------------------
\* The manager alone, fed by an arbitrary writer.

\* ado-gh-session is up: its cleanup has not started, the auth service runs,
\* the FIFO exists
SessionUp == [pc |-> "up", auth |-> TRUE, fifoFile |-> TRUE]

\* the monitor does not run
MonitorIdle ==
    /\ os = "linux"
    /\ listening = {}
    /\ contLines = {}
    /\ boundPorts = <<>>
    /\ passes = EmptyBag
    /\ opens = 0
    /\ lastEmit = [k \in Keys |-> "none"]
    /\ filtered = {}
    /\ monitor = "none" /\ timers = 0

\* the script starts: nothing forwarded, no event read yet
ManagerStart ==
    /\ pc = "start" /\ stage = "run" /\ exitCode = -1
    /\ tmpFile = NoFile /\ copyFile = NoFile
    /\ PORT_FORWARD_LIST = <<>>
    /\ cur = IdleCur
    /\ evt = NoEvt /\ killed = {}
    /\ hist = [p \in TrackPorts |-> <<>>]
    /\ startFailed = FALSE
    /\ trigger = "none"

\* ado-gh-session hands the manager a fresh, empty PID file; started on its
\* own the manager may find no file, or the record of an earlier run whose
\* process is alive or dead
InitMgr ==
    /\ MonitorIdle
    /\ ManagerStart
    /\ fifo = <<>> /\ writerOpen = TRUE /\ nlines = 0 /\ frag = <<>>
    /\ setup \in {"ok", "noparam", "nofifo"}
    /\ \/ /\ pidFile \in {NoFile, File(<<>>)}
          /\ procs = [pid \in Pids |-> FreeProc]
       \/ /\ pidFile = File(<<Record(80, 1)>>)
          /\ \E s \in {"alive", "dead"} :
                procs = [pid \in Pids |-> IF pid = 1 THEN Foreign(80, s) ELSE FreeProc]
    /\ storeEmptyAtStart = (pidFile.lines = <<>>)
    /\ session = [SessionUp EXCEPT !.fifoFile = (setup /= "nofifo")]

NextMgr ==
    \/ Setup
    \/ ReadLine
    \/ FwdCheck
    \/ StopScan
    \/ StopWait
    \/ StopFinish
    \/ EndOfInput
    \/ \E sig \in Signals : Trap(sig)
    \/ CleanupBegin
    \/ CleanupScan
    \/ CleanupWait
    \/ CleanupRemove
    \/ \E pid \in Pids : ProcExit(pid)
    \/ \E line \in InputLines : WriteLine(line)
    \/ WriterClose

SpecMgr == InitMgr /\ [][NextMgr]_vars

----------------------------------------------------------------------------
\* The monitor alone, its output drained by an abstract reader.

\* lines 312-319 and 133-193: the monitor logs that it starts and calls
\* startMonitoring, which spawns the continuous child and sets one timer;
\* boundPorts is empty
MonitorStart ==
    /\ listening = {}
    /\ contLines = {}
    /\ boundPorts = <<>>
    /\ passes = EmptyBag
    /\ opens = 0
    /\ lastEmit = [k \in Keys |-> "none"]
    /\ filtered = {}
    /\ monitor = "running" /\ timers = 1
    /\ fifo = <<sendMessage(ErrorEvent)>> /\ writerOpen = TRUE /\ nlines = 0
    /\ frag = <<>>

\* the manager started by ado-gh-session: the PID file is fresh and empty
ManagerFresh ==
    /\ ManagerStart
    /\ setup = "ok"
    /\ pidFile = File(<<>>)
    /\ procs = [pid \in Pids |-> FreeProc]
    /\ storeEmptyAtStart = TRUE

InitMon ==
    /\ os \in {"linux", "darwin"}
    /\ MonitorStart
    /\ ManagerFresh
    /\ session = SessionUp

NextMon ==
    \/ \E sock \in MonSockets : Open(sock)
    \/ \E sock \in MonSockets : Close(sock)
    \/ ContSample
    \/ \E line \in MonSockets : ContLine(line)
    \/ \E ok \in BOOLEAN : RecStart(ok)
    \/ \E currentPorts \in Listings(Keys) : RecClose(currentPorts)
    \/ Drain

SpecMon == InitMon /\ [][NextMon]_vars

\* the monitor with a continuous child that can close and be restarted
NextRestart ==
    \/ NextMon
    \/ \E code \in ExitCodes : MonitorClose(code)
    \/ Restart

SpecRestart == InitMon /\ [][NextRestart]_vars

----------------------------------------------------------------------------
\* The session: the monitor's output is the FIFO the manager reads.

\* the sockets the session's remote host opens and closes
SessionSockets == {<<"tcp", 3000>>}

\* a codespace is a linux host; ado-gh-session starts both sides
InitSession ==
    /\ os = "linux"
    /\ MonitorStart
    /\ ManagerFresh
    /\ session = SessionUp

\* a tunnel that was sent SIGTERM exits
TermedExit(pid) == procs[pid].termed /\ ProcExit(pid)

NextSession ==
    \/ \E sock \in SessionSockets : Open(sock)
    \/ \E sock \in SessionSockets : Close(sock)
    \/ ContSample
    \/ \E line \in SessionSockets : ContLine(line)
    \/ \E ok \in BOOLEAN : RecStart(ok)
    \/ \E currentPorts \in Listings(SessionSockets) : RecClose(currentPorts)
    \/ Setup
    \/ ReadLine
    \/ FwdCheck
    \/ StopScan
    \/ StopWait
    \/ StopFinish
    \/ \E pid \in Pids : ProcExit(pid)

SpecSession == InitSession /\ [][NextSession]_vars

\* the timers of the monitor fire and its children print and close; the
\* manager's script runs on; a tunnel that is sent SIGTERM exits
SessionFairness ==
    /\ WF_vars(ContSample)
    /\ \A line \in SessionSockets : WF_vars(ContLine(line))
    /\ WF_vars(\E ok \in BOOLEAN : RecStart(ok))
    /\ \A currentPorts \in Listings(SessionSockets) : WF_vars(RecClose(currentPorts))
    /\ WF_vars(Setup)
    /\ WF_vars(ReadLine)
    /\ WF_vars(FwdCheck)
    /\ WF_vars(StopScan)
    /\ WF_vars(StopWait)
    /\ WF_vars(StopFinish)
    /\ \A pid \in Pids : WF_vars(TermedExit(pid))

SpecSessionFair == SpecSession /\ SessionFairness

----------------------------------------------------------------------------
\* Properties of the monitor's differ.

\* the keys of boundPorts
BoundSet == Range(boundPorts)

\* the port events a step writes to the monitor's output
NewEvents ==
    IF Len(fifo') > Len(fifo) THEN SubSeq(fifo', Len(fifo) + 1, Len(fifo')) ELSE <<>>

\* C1: under every interleaving of continuous-pass lines and overlapping
\* reconciliation passes, `bound` is emitted for a key only when the key is not
\* in boundPorts and `unbound` only when it is; so the events of one key
\* alternate bound, unbound, bound, ... starting with bound, and boundPorts is
\* always the set of keys whose last emitted event is `bound`.
C1_DifferAlternates ==
    /\ [](BoundSet = {k \in Keys : lastEmit[k] = "bound"})
    /\ [][\A i \in 1 .. Len(NewEvents) :
            LET e == NewEvents[i]
                k == <<e.protocol, e.port>>
            IN  e.type = "port" =>
                  /\ e.action = "bound" =>
                        k \notin BoundSet /\ lastEmit[k] \in {"none", "unbound"}
                  /\ e.action = "unbound" =>
                        k \in BoundSet /\ lastEmit[k] = "bound"]_vars

\* C1 witness: two reconciliation passes overlap while one key has been bound
\* and unbound and another is bound
C1_Witness ==
    /\ BagCardinality(passes) >= 2
    /\ lastEmit[<<"tcp", 3000>>] = "unbound"
    /\ lastEmit[<<"tcp", 8080>>] = "bound"
    /\ contLines /= {}

----------------------------------------------------------------------------
\* Properties of port-forward-manager.

\* the step reads the next line of the FIFO
ReadsLine == pc = "loop" /\ stage = "run" /\ Len(fifo') < Len(fifo)

\* the child tunnels alive for port p
LiveTunnelsOf(p) == {pid \in LiveTunnels : procs[pid].port = p}

\* the last action completed for port p
LastAct(p) == IF hist[p] = <<>> THEN "none" ELSE hist[p][Len(hist[p])]

\* C2: after any sequence of events, tunnel starts succeeding or failing, the
\* PID file holds at most one `port:pid` line for any port.
C2_OneRecordPerPort == \A p \in TrackPorts : CountRecords(pidFile, p) <= 1

\* C2 witness: bound was delivered twice for port 80 and another port is
\* recorded as well
C2_Witness ==
    /\ pc = "loop"
    /\ hist[80] = <<"bound", "bound">>
    /\ RecordPorts(pidFile) = {80, 8080}

\* C3 (as claimed): when the manager has exited, whatever it was doing when the
\* exit trigger arrived, no tunnel process it spawned is alive.
C3_NoTunnelOutlivesManager == stage = "gone" => LiveTunnels = {}

\* C4: a `bound` event for a port that has a record in the PID file starts no
\* process and leaves the PID file as it was, with one record for the port; so
\* the same bound event delivered twice in a row leaves one record and at most
\* one tunnel process for the port.
C4_BoundIsIdempotent ==
    /\ [][(/\ ReadsLine
           /\ EventClass(Head(fifo)) = "forward"
           /\ pidFile.exists
           /\ Head(fifo).port \in RecordPorts(pidFile))
          => /\ procs' = procs
             /\ pidFile' = pidFile
             /\ CountRecords(pidFile', Head(fifo).port) = 1
             /\ pc' = "loop"]_vars
    /\ [](\A p \in TrackPorts :
            (pc = "loop" /\ hist[p] = <<"bound", "bound">> /\ p \in RecordPorts(pidFile))
            => CountRecords(pidFile, p) = 1 /\ Cardinality(LiveTunnelsOf(p)) <= 1)

\* C4 witness: the second of two bound events for port 8080 has been processed
\* and its tunnel is alive
C4_Witness ==
    /\ pc = "loop"
    /\ hist[8080] = <<"bound", "bound">>
    /\ CountRecords(pidFile, 8080) = 1
    /\ Cardinality(LiveTunnelsOf(8080)) = 1

\* C5: an `unbound` event for a port that has no record in the PID file, or
\* that finds no PID file, signals no process and leaves the records of the
\* PID file as they were.
C5_UnboundWithoutRecordIsNoOp ==
    /\ [][(/\ ReadsLine
           /\ EventClass(Head(fifo)) = "stop"
           /\ ~pidFile.exists)
          => /\ procs' = procs
             /\ pidFile' = pidFile
             /\ pc' = "loop"]_vars
    /\ [][(/\ pc = "stop_mv" /\ pc' = "loop"
           /\ evt.port \notin RecordPorts(evt.file0))
          => /\ killed' = {}
             /\ pidFile' = evt.file0]_vars

\* C5 witness: unbound was processed for port 80, which had no record, while
\* port 8080 has a record and a live tunnel
C5_Witness ==
    /\ pc = "loop"
    /\ hist[80] = <<"unbound">>
    /\ RecordPorts(pidFile) = {8080}
    /\ LiveTunnelsOf(8080) /= {}
    /\ killed = {}

\* C6: after bound(p) then unbound(p) are processed, from any store and whether
\* the start succeeded or failed, the PID file has no record for p and no
\* tunnel the manager started for p is alive.
C6_BoundThenUnbound ==
    \A p \in TrackPorts :
        (pc = "loop" /\ hist[p] = <<"bound", "unbound">>)
        => p \notin RecordPorts(pidFile) /\ LiveTunnelsOf(p) = {}

\* C6 witness: bound then unbound were processed for port 80, and the unbound
\* signalled the tunnel
C6_Witness ==
    /\ pc = "loop"
    /\ hist[80] = <<"bound", "unbound">>
    /\ killed /= {}
    /\ \E pid \in killed : procs[pid].child /\ procs[pid].port = 80

\* C7: events are applied in the order read: from an empty store, with every
\* tunnel start succeeding, the PID file holds exactly the ports whose last
\* event is `bound`.
C7_LastEventDecides ==
    (pc = "loop" /\ storeEmptyAtStart /\ ~startFailed)
    => RecordPorts(pidFile) = {p \in TrackPorts : LastAct(p) = "bound"}

\* C7 witness: [bound(80), bound(8080), unbound(80)] were processed in this
\* order, leaving a record for 8080 and none for 80
C7_Witness ==
    /\ pc = "loop" /\ storeEmptyAtStart /\ ~startFailed
    /\ hist[80] = <<"bound", "unbound">>
    /\ hist[8080] = <<"bound">>
    /\ pidFile.lines /= <<>>
    /\ pidFile.lines[1].port = 8080

\* the dead processes as they were when the event being completed was read
DeadAtRead == IF pc = "loop" THEN DeadPids ELSE evt.dead0

\* the step completes the processing of a TCP port event
CompletesEvent ==
    /\ pc' = "loop" /\ stage = "run"
    /\ \/ pc \in {"fwd_sleep", "stop_mv"}
       \/ ReadsLine /\ EventClass(Head(fifo)) \in {"forward", "stop"}

\* C8 (as claimed): a record found at startup whose process is no longer alive
\* is removed by the next reconciliation step, without an unbound event for it.
C8_StaleRecordsRemoved ==
    [][CompletesEvent =>
        \A i \in 1 .. Len(pidFile'.lines) :
            ~(~procs[pidFile'.lines[i].pid].child
              /\ pidFile'.lines[i].pid \in DeadAtRead)]_vars

\* C9: a line that is not JSON, or is JSON with an unrecognized type, is
\* discarded: the PID file, the local list, the processes and the position of
\* the script stay as they were, the read loop goes on, and so every later
\* line is processed as if the bad line had not been there.
C9_BadLineDiscarded ==
    [][(ReadsLine /\ EventClass(Head(fifo)) \in {"nonjson", "unrecognized"})
       => /\ UNCHANGED mgrVars
          /\ fifo' = Tail(fifo)
          /\ hist' = hist]_vars

\* C9 witness: a line that is not JSON was discarded while a port is forwarded
\* and more lines wait in the FIFO
C9_Witness ==
    /\ pc = "loop" /\ stage = "run"
    /\ evt.act = "nonjson"
    /\ RecordPorts(pidFile) = {80}
    /\ LiveTunnelsOf(80) /= {}
    /\ fifo /= <<>>

----------------------------------------------------------------------------
\* The end-to-end scenario.

\* C10: if tcp:3000 is sampled and from some time on no sample contains it,
\* then with the timers firing the monitor emits bound(3000) followed
\* eventually by unbound(3000); and once the manager has processed both, the
\* PID file holds no record.
C10_BoundThenUnboundScenario ==
    /\ (<>[](<<"tcp", 3000>> \notin listening))
       => ((lastEmit[<<"tcp", 3000>>] = "bound") ~> (lastEmit[<<"tcp", 3000>>] = "unbound"))
    /\ []((pc = "loop" /\ hist[3000] = <<"bound", "unbound">>) => pidFile.lines = <<>>)

\* C10 witness: port 3000 was listening and is closed, both events were
\* emitted and processed, the tunnel was signalled and the PID file is empty
C10_Witness ==
    /\ <<"tcp", 3000>> \notin listening
    /\ lastEmit[<<"tcp", 3000>>] = "unbound"
    /\ pc = "loop" /\ fifo = <<>>
    /\ hist[3000] = <<"bound", "unbound">>
    /\ killed /= {}
    /\ pidFile = File(<<>>)

----------------------------------------------------------------------------
\* Well-known ports.

\* C11: no bound or unbound event is ever emitted for a socket whose port is
\* 1023 or lower, its key never enters boundPorts, and every key of boundPorts
\* has a port above 1023.
C11_WellKnownPortsIgnored ==
    /\ \A k \in BoundSet : k[2] > 1023
    /\ \A k \in Keys : k[2] <= 1023 => lastEmit[k] = "none"
    /\ \A i \in 1 .. Len(fifo) : fifo[i].type = "port" => fifo[i].port > 1023

\* C11 witness: the line of tcp:22 went through the line handler, the socket
\* has closed since, and a reconciliation pass has emitted unbound for another
\* port
C11_Witness ==
    /\ <<"tcp", 22>> \in filtered
    /\ <<"tcp", 22>> \notin listening
    /\ lastEmit[<<"tcp", 3000>>] = "unbound"

----------------------------------------------------------------------------
\* The manager under a fair scheduler.

\* the script takes its next step, whichever it is
ScriptStep ==
    \/ Setup
    \/ ReadLine
    \/ FwdCheck
    \/ StopScan
    \/ StopWait
    \/ StopFinish
    \/ EndOfInput
    \/ CleanupBegin
    \/ CleanupScan
    \/ CleanupWait
    \/ CleanupRemove

\* the lines of the TCP port events
TcpLines ==
    {sendMessage(PortEvent(a, p, "tcp")) : a \in {"bound", "unbound"}, p \in MgrPorts}

\* the manager fed with TCP port events only
NextMgrTcp ==
    \/ ScriptStep
    \/ \E sig \in Signals : Trap(sig)
    \/ \E pid \in Pids : ProcExit(pid)
    \/ \E line \in TcpLines : WriteLine(line)
    \/ WriterClose

\* the shell keeps running the script, and a process sent SIGTERM exits
SpecMgrFair ==
    /\ InitMgr /\ [][NextMgrTcp]_vars
    /\ WF_vars(ScriptStep)
    /\ \A pid \in Pids : WF_vars(TermedExit(pid))

\* the bound line at the head of the FIFO is about to be read, and its port
\* has no record
BoundPending(p) ==
    /\ pc = "loop" /\ stage = "run"
    /\ fifo /= <<>>
    /\ EventClass(Head(fifo)) = "forward" /\ Head(fifo).port = p
    /\ ~HasRecord(pidFile, p)

\* the processes that the step starts
Started ==
    {pid \in Pids : procs'[pid].child /\ procs'[pid] /= procs[pid] /\ procs[pid].st /= "alive"}

\* C12: a bound TCP event waiting in the FIFO for a port with no record is
\* read, unless a signal ends the manager first; reading it starts exactly one
\* tunnel process for the port; and when that process is alive after the grace
\* delay, its record port:pid is in the PID file as the processing completes.
C12_BoundStartsTunnel ==
    /\ \A p \in MgrPorts :
          BoundPending(p) ~> ((pc = "fwd_sleep" /\ cur.port = p) \/ stage /= "run")
    /\ [][\A p \in MgrPorts : (BoundPending(p) /\ ReadsLine) =>
            /\ Cardinality(Started) = 1
            /\ \A pid \in Started :
                  /\ procs'[pid].port = p /\ procs'[pid].st = "alive"
                  /\ procs[pid].st /= "alive"
                  /\ cur'.pid = pid]_vars
    /\ [][(pc = "fwd_sleep" /\ pc' = "loop" /\ IsAlive(cur.pid)) =>
            /\ pidFile'.exists
            /\ Record(cur.port, cur.pid) \in Range(pidFile'.lines)
            /\ Len(pidFile'.lines) = Len(pidFile.lines) + 1]_vars

\* C12 witness: bound(8080) was read while the PID file held a record for 80
\* only; its tunnel was alive after the grace delay and is recorded
C12_Witness ==
    /\ pc = "loop"
    /\ hist[8080] = <<"bound">>
    /\ \E pid \in LiveTunnelsOf(8080) : pidFile.lines = <<Record(80, 1), Record(8080, pid)>>

----------------------------------------------------------------------------
\* Exit status.

\* the positions of the script inside its read loop
InLoop == {"loop", "fwd_sleep", "stop_scan", "stop_wait", "stop_mv"}

\* C13: the manager exits 0 when its read loop ends at the end of input, 130
\* on INT, 143 on TERM, and 1 when a parameter or the FIFO is missing at
\* startup; in that last case it never enters the read loop: it processes no
\* event and starts no tunnel.
C13_ExitCodes ==
    /\ stage = "gone" =>
          /\ trigger = "eof" => exitCode = 0
          /\ trigger = "INT" => exitCode = 130
          /\ trigger = "TERM" => exitCode = 143
          /\ trigger \in {"noparam", "nofifo"} => exitCode = 1
          /\ trigger /= "none"
    /\ setup /= "ok" =>
          /\ pc \notin InLoop
          /\ trigger \in {"none", setup}
          /\ evt = NoEvt /\ \A p \in TrackPorts : hist[p] = <<>>
          /\ \A pid \in Pids : ~procs[pid].child

\* C13 witness: started without its FIFO, the manager has exited with status
\* 1 while lines were waiting to be read
C13_Witness ==
    /\ stage = "gone"
    /\ setup = "nofifo"
    /\ exitCode = 1
    /\ fifo /= <<>>

----------------------------------------------------------------------------
\* Shutdown cleanup.

\* the EXIT trap runs cleanup_individual_forwards after the INT or TERM trap
\* has run it to its end
SecondCleanup == stage = "exit" /\ trigger \in Signals

\* C14: the second run of cleanup_individual_forwards finds no PID file and
\* returns at once: it signals no process and changes neither the files, the
\* processes nor the exit status, so the state it leaves is the state the
\* first run left; and that state has no PID file, no copy of it, and no
\* tunnel alive.
C14_CleanupTwice ==
    /\ [][(SecondCleanup /\ pc' /= pc) =>
            /\ pc = "cl_begin" /\ pc' = "exited" /\ stage' = "gone"
            /\ ~pidFile.exists
            /\ UNCHANGED <<pidFile, tmpFile, copyFile, procs, killed, exitCode,
                           PORT_FORWARD_LIST>>]_vars
    /\ [](SecondCleanup => ~pidFile.exists /\ ~copyFile.exists)
    /\ []((stage = "gone" /\ trigger \in Signals) =>
            ~pidFile.exists /\ ~copyFile.exists /\ LiveTunnels = {})

----------------------------------------------------------------------------
\* Events that are not TCP port events.

\* the line at the head of the FIFO is an error event or a port event of
\* another protocol than tcp
NotTcpPortEvent(line) ==
    /\ IsJson(line)
    /\ \/ line.type = "error"
       \/ line.type = "port" /\ line.protocol /= "tcp"

\* C15: reading an error event, or a port event whose protocol is not tcp,
\* starts no process, signals no process, and leaves the PID file, the local
\* list and every other variable of the manager as they were.
C15_NonTcpEventsChangeNothing ==
    [][(ReadsLine /\ NotTcpPortEvent(Head(fifo)))
       => /\ procs' = procs
          /\ killed' = {}
          /\ pidFile' = pidFile
          /\ PORT_FORWARD_LIST' = PORT_FORWARD_LIST
          /\ tmpFile' = tmpFile
          /\ pc' = "loop"
          /\ hist' = hist]_vars

\* C15 witness: a udp port event was read and dropped while port 8080 is
\* forwarded over tcp, its tunnel alive
C15_Witness ==
    /\ pc = "loop" /\ stage = "run"
    /\ evt.act = "nontcp"
    /\ RecordPorts(pidFile) = {8080}
    /\ PORT_FORWARD_LIST = <<8080>>
    /\ LiveTunnelsOf(8080) /= {}

----------------------------------------------------------------------------
\* Records of processes that have died.

\* the PID file has a record for port p and the process of every such record
\* has terminated
DeadRecord(p) ==
    /\ HasRecord(pidFile, p)
    /\ \A i \in 1 .. Len(pidFile.lines) :
          pidFile.lines[i].port = p => ~IsAlive(pidFile.lines[i].pid)

\* C16 (as claimed): a bound event is a no-op only when the port has a record
\* whose process is alive; when the record's process has died, the bound event
\* starts a new tunnel for the port.
C16_DeadRecordDoesNotSuppress ==
    [][\A p \in MgrPorts :
          (/\ ReadsLine
           /\ EventClass(Head(fifo)) = "forward" /\ Head(fifo).port = p
           /\ DeadRecord(p))
          => /\ pc' = "fwd_sleep"
             /\ \E pid \in Started : procs'[pid].port = p]_vars

----------------------------------------------------------------------------
\* Stopping a tunnel.

\* the step is the mv of stop_forwarding_port: the records of the port leave
\* the PID file
RemovesRecords == pc = "stop_mv" /\ pc' = "loop"

\* C17 (as claimed): when stop_forwarding_port removes the record of a port
\* from the PID file, the process of that record is no longer alive: it was
\* signalled and waited for, or was dead already.
C17_RecordRemovedOnlyWhenDead ==
    [][RemovesRecords =>
        \A i \in 1 .. Len(pidFile.lines) :
            pidFile.lines[i].port = cur.port => ~IsAlive(pidFile.lines[i].pid)]_vars


\* the shell keeps running the script; a tunnel sent SIGTERM is free to ignore
\* it and stay alive
SpecMgrStubborn ==
    /\ InitMgr /\ [][NextMgrTcp]_vars
    /\ WF_vars(ScriptStep)

\* C18 (as claimed): a stop request always completes: the wait of
\* stop_forwarding_port, and the wait for each record in
\* cleanup_individual_forwards, ends after a bounded time even when the tunnel
\* process ignores the signal.
C18_StopAlwaysCompletes ==
    /\ (pc = "stop_wait") ~> (pc /= "stop_wait")
    /\ (pc = "cl_wait") ~> (pc /= "cl_wait")

----------------------------------------------------------------------------
\* A tunnel that fails to start.

\* the records the step adds to the PID file
NewRecords == Range(pidFile'.lines) \ Range(pidFile.lines)

\* C19: a record is added to the PID file only by forward_port, for the
\* process it started, and only when that process is alive after the grace
\* delay; when it is not, forward_port leaves the PID file and the local list
\* as they are and reports the failure; and a process is started only by the
\* step that reads a bound event, for the port of that event.
C19_RecordOnlyIfAlive ==
    /\ [][\A r \in NewRecords :
            /\ pc = "fwd_sleep" /\ pc' = "loop"
            /\ r = Record(cur.port, cur.pid)
            /\ procs[r.pid].st = "alive" /\ procs[r.pid].child]_vars
    /\ [][(pc = "fwd_sleep" /\ pc' = "loop" /\ procs[cur.pid].st /= "alive") =>
            /\ pidFile' = pidFile
            /\ PORT_FORWARD_LIST' = PORT_FORWARD_LIST
            /\ cur.port \notin Range(PORT_FORWARD_LIST')
            /\ startFailed'
            /\ procs' = procs]_vars
    /\ [][Started /= {} =>
            /\ ReadsLine /\ EventClass(Head(fifo)) = "forward"
            /\ \A pid \in Started : procs'[pid].port = Head(fifo).port]_vars

\* C19 witness: the tunnel for port 80 was dead after the grace delay: bound(80)
\* is processed, port 80 has no record and is not in the local list, while
\* 8080 is forwarded
C19_Witness ==
    /\ pc = "loop" /\ startFailed
    /\ hist[80] = <<"bound">>
    /\ RecordPorts(pidFile) = {8080}
    /\ PORT_FORWARD_LIST = <<8080>>
    /\ \E pid \in Pids : procs[pid].child /\ procs[pid].port = 80 /\ procs[pid].st = "dead"

----------------------------------------------------------------------------
\* ado-gh-session: the cleanup function run by its EXIT/INT/TERM trap.

\* cleanup, lines 292-296: the trap fires and the manager is sent SIGTERM
SessKillManager ==
    /\ session.pc = "up"
    /\ session' = [session EXCEPT !.pc = "wait_mgr"]
    /\ UNCHANGED <<monVars, chanVars, mgrVars, ghostVars>>

\* the SIGTERM sent by cleanup reaches the manager
TermArrives == session.pc = "wait_mgr" /\ Trap("TERM")

\* mutant: cleanup does not wait for the manager
SessWaitManager_NoWait ==
    /\ session.pc = "wait_mgr"
    /\ session' = [session EXCEPT !.pc = "kill_auth"]
    /\ UNCHANGED <<monVars, chanVars, mgrVars, ghostVars>>

\* cleanup, line 297: wait $pid returns when the manager has exited
SessWaitManager ==
    /\ session.pc = "wait_mgr"
    /\ stage = "gone"
    /\ session' = [session EXCEPT !.pc = "kill_auth"]
    /\ UNCHANGED <<monVars, chanVars, mgrVars, ghostVars>>

\* cleanup, lines 303-308: the auth service is killed and waited for
SessKillAuth ==
    /\ session.pc = "kill_auth"
    /\ session' = [session EXCEPT !.pc = "kill_mon", !.auth = FALSE]
    /\ UNCHANGED <<monVars, chanVars, mgrVars, ghostVars>>

\* cleanup, lines 311-316: the port-monitor ssh, the FIFO's writer, is killed
\* and waited for
SessKillMonitor ==
    /\ session.pc = "kill_mon"
    /\ writerOpen' = FALSE
    /\ session' = [session EXCEPT !.pc = "rm_fifo"]
    /\ UNCHANGED <<fifo, nlines, frag, monVars, mgrVars, ghostVars>>

\* cleanup, lines 319-321: rm -f "$PORT_MONITOR_FIFO"
SessRemoveFifo ==
    /\ session.pc = "rm_fifo"
    /\ fifo' = <<>> /\ frag' = <<>>
    /\ session' = [session EXCEPT !.pc = "done", !.fifoFile = FALSE]
    /\ UNCHANGED <<writerOpen, nlines, monVars, mgrVars, ghostVars>>

\* the session with its manager, from the start of the manager to the end of
\* cleanup; the port-monitor ssh writes TCP port events and may die by itself
InitShutdown ==
    /\ MonitorIdle
    /\ ManagerFresh
    /\ fifo = <<>> /\ writerOpen = TRUE /\ nlines = 0 /\ frag = <<>>
    /\ session = SessionUp

NextShutdown ==
    \/ ScriptStep
    \/ \E pid \in Pids : ProcExit(pid)
    \/ \E line \in TcpLines : WriteLine(line)
    \/ WriterClose
    \/ SessKillManager
    \/ TermArrives
    \/ SessWaitManager
    \/ SessKillAuth
    \/ SessKillMonitor
    \/ SessRemoveFifo

SpecShutdown == InitShutdown /\ [][NextShutdown]_vars

\* the positions of cleanup after the manager was waited for
ManagerWaited == {"kill_auth", "kill_mon", "rm_fifo", "done"}

\* C20 (as claimed): the helper processes are stopped only after the manager
\* has stopped, the recorded tunnels are stopped, and the PID file and the FIFO
\* are removed.
C20_ShutdownOrderAsClaimed ==
    (~session.auth \/ session.pc \in {"rm_fifo", "done"})
    => /\ stage = "gone"
       /\ ~pidFile.exists
       /\ ~session.fifoFile

\* C20 (amended): cleanup goes on to the helpers only when the manager has
\* exited, and the manager reads no line once it has left its loop; the
\* manager removes the PID file only when every tunnel recorded in it is
\* dead, and has removed it when it exits; the auth service is stopped after
\* that, then the port-monitor ssh, and the FIFO is removed last.
C20_ShutdownOrder ==
    /\ [](session.pc \in ManagerWaited =>
            /\ stage = "gone" /\ ~pidFile.exists
            /\ \A pid \in killed : ~IsAlive(pid))
    /\ [][stage /= "run" => Len(fifo') >= Len(fifo) \/ ~session'.fifoFile]_vars
    /\ [](pc \in {"cl_rm", "exited"} =>
            \A pid \in RecordPids(copyFile) \cup RecordPids(pidFile) :
                ~IsAlive(pid))
    /\ [](stage = "gone" => ~pidFile.exists)
    /\ [](~writerOpen /\ session.pc \in {"rm_fifo", "done"} => ~session.auth)
    /\ [](~session.fifoFile =>
            ~session.auth /\ ~writerOpen /\ session.pc = "done")

\* C20 witness: cleanup has run to its end after the manager, on the TERM it
\* was sent, killed a recorded tunnel and removed the PID file
C20_Witness ==
    /\ session = [pc |-> "done", auth |-> FALSE, fifoFile |-> FALSE]
    /\ trigger = "TERM" /\ stage = "gone"
    /\ \E pid \in killed : procs[pid].child /\ ~IsAlive(pid)
    /\ ~pidFile.exists

----------------------------------------------------------------------------
\* Best-effort cleanup.

\* cleanup_individual_forwards is in its loop over the copy of the PID file
InCleanupLoop == pc \in {"cl_scan", "cl_wait"}

\* C21 (as claimed): every record present when cleanup starts has a stop
\* signal sent to its pid in the end, whatever happens to the tunnels of the
\* records before it.
C21_EveryRecordSignalled ==
    \A pid \in Pids :
        (InCleanupLoop /\ pid \in RecordPids(copyFile)) ~> (pid \in killed)

----------------------------------------------------------------------------
\* The rewrite of the PID file.

\* stop_forwarding_port is past its touch of the temp file
InStop == pc \in {"stop_scan", "stop_wait", "stop_mv"}

\* the records ls without those of port p
WithoutPort(ls, p) == SelectSeq(ls, LAMBDA r : r.port /= p)

\* C22: from the moment stop_forwarding_port has made its temp file until its
\* mv, the PID file holds exactly what it held when the event was read; the
\* new content is collected in the temp file, and one step, the mv, puts the
\* PID file at that content, which is the old one without the records of the
\* port: no state shows the PID file in between.
C22_AtomicRewrite ==
    /\ []((InStop /\ stage = "run") =>
            /\ pidFile = evt.file0
            /\ tmpFile.exists
            /\ \A i \in 1 .. Len(tmpFile.lines) :
                  tmpFile.lines[i] \in Range(pidFile.lines))
    /\ [][(InStop /\ stage = "run") =>
            \/ pidFile' = pidFile
            \/ /\ pc = "stop_mv" /\ pc' = "loop"
               /\ pidFile' = File(WithoutPort(pidFile.lines, cur.port))
               /\ ~tmpFile'.exists]_vars

\* C22 witness: the unbound of port 80 was processed: its tunnel was signalled
\* and its record is gone, the record of 8080 was kept
C22_Witness ==
    /\ pc = "loop" /\ evt = NoEvt
    /\ LastAct(80) = "unbound"
    /\ \E pid \in killed : procs[pid].child /\ procs[pid].port = 80
    /\ RecordPorts(pidFile) = {8080}
    /\ ~tmpFile.exists

----------------------------------------------------------------------------
\* The local list and the PID file.

\* the ports of the local list
ListPorts == Range(PORT_FORWARD_LIST)

\* C23 (as claimed): when the processing of a bound or unbound event
\* completes, the ports of PORT_FORWARD_LIST are the ports that have a record
\* in the PID file.
C23_ListAgreesWithFile ==
    [][CompletesEvent => ListPorts' = RecordPorts(pidFile')]_vars

\* the contents the local list is compared under
AnyLists ==
    {<<>>} \cup {<<a>> : a \in MgrPorts} \cup {<<a, b>> : a \in MgrPorts, b \in MgrPorts}

\* C24: when a bound event is read, forward_port starts a tunnel or not as it
\* would under every other content of the local list, including one that holds
\* a port of which the new port is a substring: it starts one exactly when the
\* PID file has no record for the port; reading the bound event leaves the PID file as it is, and the PID file
\* after the grace delay is the old one plus the new record if the process is
\* alive, the old one if it is not.
C24_ListNeverTrusted ==
    /\ [][\A p \in MgrPorts :
            (ReadsLine /\ EventClass(Head(fifo)) = "forward" /\ Head(fifo).port = p) =>
                /\ \A list \in AnyLists : Spawns(list, pidFile, p) = (Started /= {})
                /\ (Started /= {}) = ~HasRecord(pidFile, p)
                /\ HasRecord(pidFile, p) => procs' = procs
                /\ pidFile' = pidFile]_vars
    /\ [][(pc = "fwd_sleep" /\ pc' = "loop") =>
            /\ pidFile' = IF IsAlive(cur.pid)
                          THEN File(Append(pidFile.lines, Record(cur.port, cur.pid)))
                          ELSE pidFile
            /\ procs' = procs]_vars

\* C24 witness: bound(80) was read while the local list held 8080 and the PID
\* file had a record for 8080 only; the tunnel for 80 was started and recorded
C24_Witness ==
    /\ pc = "loop"
    /\ PORT_FORWARD_LIST = <<8080, 80>>
    /\ LastAct(80) = "bound"
    /\ Len(pidFile.lines) = 2 /\ pidFile.lines[1].port = 8080
    /\ \E pid \in LiveTunnelsOf(80) : pidFile.lines[2] = Record(80, pid)

----------------------------------------------------------------------------
\* Recovery of the live tunnels from the PID file.

\* the script is between two turns of its read loop
BetweenEvents == pc = "loop" /\ stage = "run"

\* C25: between two events, every tunnel the manager started that is alive has
\* its record port:pid in the PID file.
C25_FileCoversLiveTunnels ==
    BetweenEvents =>
        \A pid \in LiveTunnels :
            /\ pidFile.exists
            /\ Record(procs[pid].port, pid) \in Range(pidFile.lines)


\* C25 witness: two tunnels are alive and recorded after an earlier start had
\* failed and left no record
C25_Witness ==
    /\ BetweenEvents
    /\ startFailed
    /\ Cardinality(LiveTunnels) = 2
    /\ Len(pidFile.lines) = 2

----------------------------------------------------------------------------
\* Events of one port and the other ports.

\* the port of the event the step belongs to: the one about to be read, or
\* the one forward_port or stop_forwarding_port is working on
EventPort ==
    IF pc = "loop" THEN (IF fifo /= <<>> THEN Head(fifo).port ELSE 0)
    ELSE cur.port

\* the lines of file f for port q, in order
RecordsOf(f, q) == SelectSeq(f.lines, LAMBDA r : r.port = q)

\* the step changes the entry of pid in the process table, and not by the
\* process exiting
ByManager(pid) ==
    /\ procs'[pid] /= procs[pid]
    /\ ~(IsAlive(pid) /\ procs'[pid].st = "dead")

\* C26: while the manager processes events, a step for port p leaves the
\* records of every other port in the PID file as they are, starts a process
\* for p only, and signals only processes of p.
C26_OtherPortsUntouched ==
    [][(stage = "run" /\ stage' = "run") =>
        /\ \A q \in MgrPorts \ {EventPort} :
              RecordsOf(pidFile', q) = RecordsOf(pidFile, q)
        /\ \A pid \in Pids : ByManager(pid) =>
              /\ procs'[pid].port = EventPort
              /\ IsAlive(pid) => procs[pid].port = EventPort
        /\ \A pid \in killed' \ killed : procs[pid].port = EventPort]_vars

\* C26 witness: bound and unbound were processed for port 80, the unbound
\* signalled its tunnel, and the tunnel and the record of 8080 are there
C26_Witness ==
    /\ pc = "loop" /\ stage = "run"
    /\ hist[8080] = <<"bound">>
    /\ hist[80] = <<"bound", "unbound">>
    /\ \E pid \in killed : procs[pid].port = 80
    /\ \E pid \in LiveTunnelsOf(8080) : pidFile.lines = <<Record(8080, pid)>>

----------------------------------------------------------------------------
\* The two passes of the monitor.

\* the step is the line handler of the continuous listing taking a line
ContinuousStep == contLines' /= contLines /\ contLines' \subseteq contLines

\* the step is the close handler of a reconciliation listing
ReconcileStep == BagCardinality(passes') < BagCardinality(passes)

\* the actions of the port events a step writes
NewActions == {NewEvents[i].action : i \in {j \in 1 .. Len(NewEvents) : NewEvents[j].type = "port"}}

\* C27: the continuous pass removes no key from boundPorts and emits only
\* bound events; the reconciliation pass adds no key and emits only unbound
\* events; and no other step adds or removes a key or emits a port event.
C27_PassesDoNotOverlap ==
    [][LET actions == NewActions
           added == BoundSet' \ BoundSet
           removed == BoundSet \ BoundSet'
       IN  /\ ContinuousStep => removed = {} /\ actions \subseteq {"bound"}
           /\ ReconcileStep => added = {} /\ actions \subseteq {"unbound"}
           /\ (added /= {} \/ "bound" \in actions) => ContinuousStep
           /\ (removed /= {} \/ "unbound" \in actions) => ReconcileStep]_vars

\* C27 witness: the continuous pass has added tcp:3000 and tcp:8080, a
\* reconciliation pass has removed tcp:3000, and both listings are quiet
C27_Witness ==
    /\ lastEmit[<<"tcp", 3000>>] = "unbound"
    /\ BoundSet = {<<"tcp", 8080>>}
    /\ passes = EmptyBag /\ contLines = {}

----------------------------------------------------------------------------
\* The end of input.

\* read has nothing to return and never will: the FIFO is empty and no writer
\* has it open
AtEndOfInput == BetweenEvents /\ fifo = <<>> /\ ~writerOpen

\* C28: once the writer has closed the FIFO, the manager, running in its read
\* loop, exits, and every process it signalled has terminated; at the end of
\* input the next step of the script leaves the
\* loop for the cleanup, and no step keeps it in the loop; and when the
\* manager has exited on the end of input, no tunnel it started is alive, the
\* PID file is removed and the exit status is 0.
C28_WriterCloseEndsManager ==
    /\ (~writerOpen /\ stage = "run" /\ pc \in InLoop)
          ~> (stage = "gone" /\ \A pid \in Pids : ~procs[pid].termed)
    /\ [][(AtEndOfInput /\ <<pc, stage>>' /= <<pc, stage>>) =>
            pc' = "cl_begin" /\ stage' \in {"exit"} \cup Signals]_vars
    /\ []((stage = "gone" /\ trigger = "eof") =>
            LiveTunnels = {} /\ ~pidFile.exists /\ exitCode = 0)

\* C28 witness: the writer closed, the manager left its loop on the end of
\* input, its cleanup signalled a recorded tunnel, and it has exited
C28_Witness ==
    /\ ~writerOpen /\ fifo = <<>>
    /\ stage = "gone" /\ trigger = "eof"
    /\ \E pid \in killed : procs[pid].child /\ ~IsAlive(pid)
    /\ ~pidFile.exists

----------------------------------------------------------------------------
\* Lines that arrive in pieces.

\* the fragments a writer can leave: all the bytes of an event line but its
\* line separator (whole), or a proper prefix of them
Fragments == {[text |-> line, whole |-> w] : line \in TcpLines, w \in BOOLEAN}

\* mutant: a truncated object is read as the event it began to spell
FragLine_Lenient(f) == f.text

\* what the body of the loop gets when read returns fragment f at the end of
\* input: the event line itself, or a truncated object, on which jq -e fails
FragLine(f) == IF f.whole THEN f.text ELSE GarbageLine

\* the writer writes bytes that end without a line separator
WriteFragment(f) ==
    /\ writerOpen /\ pc /= "exited"
    /\ frag = <<>>
    /\ nlines < MaxLines /\ Len(fifo) < MaxFifo
    /\ frag' = <<f>>
    /\ UNCHANGED <<fifo, writerOpen, nlines, monVars, mgrVars, ghostVars>>
    /\ UNCHANGED session

\* the writer writes the rest of the line and its separator
CompleteFragment ==
    /\ writerOpen /\ pc /= "exited"
    /\ frag /= <<>>
    /\ fifo' = Append(fifo, frag[1].text)
    /\ frag' = <<>>
    /\ nlines' = nlines + 1
    /\ UNCHANGED <<writerOpen, monVars, mgrVars, ghostVars>>
    /\ UNCHANGED session

\* line 237, `read -r line || [ -n "$line" ]`: at the end of input read fails
\* but has put the unterminated bytes into line, and the body runs on them
ReadFragment ==
    /\ pc = "loop" /\ stage = "run"
    /\ fifo = <<>> /\ ~writerOpen
    /\ frag /= <<>>
    /\ frag' = <<>>
    /\ killed' = {}
    /\ Dispatch(FragLine(frag[1]))
    /\ UNCHANGED <<setup, stage, exitCode, copyFile, fifo, writerOpen, nlines>>
    /\ UNCHANGED <<monVars, storeEmptyAtStart, startFailed, trigger>>
    /\ UNCHANGED session

\* the manager of a session, fed by a writer whose lines can arrive in pieces
InitFrag ==
    /\ MonitorIdle
    /\ ManagerFresh
    /\ fifo = <<>> /\ writerOpen = TRUE /\ nlines = 0 /\ frag = <<>>
    /\ session = SessionUp

NextFrag ==
    \/ ScriptStep
    \/ ReadFragment
    \/ \E sig \in Signals : Trap(sig)
    \/ \E pid \in Pids : ProcExit(pid)
    \/ \E line \in TcpLines : WriteLine(line)
    \/ \E f \in Fragments : WriteFragment(f)
    \/ CompleteFragment
    \/ WriterClose

SpecFrag == InitFrag /\ [][NextFrag]_vars

\* the step hands the unterminated fragment to the body of the loop
ReadsFragment == frag /= <<>> /\ frag' = <<>> /\ Len(fifo') = Len(fifo)

\* C29 (as claimed): an unterminated trailing fragment, also one left when the
\* source closes, is never processed: bytes reach the body of the loop only as
\* lines whose separator was received.
C29_NoFragmentProcessed == [][~ReadsFragment]_vars

\* C29 (amended): while the writer has the FIFO open, the script between two
\* events with only a fragment to read does not move, unless a signal ends
\* it; a fragment is handed to the body of the loop only at the end of input,
\* when the writer has closed and every complete line was read; a truncated
\* object is then discarded with no effect on the PID file, the local list and
\* the processes, and a whole event object is processed as its event.
C29_FragmentOnlyAtEndOfInput ==
    /\ [][(BetweenEvents /\ fifo = <<>> /\ frag /= <<>> /\ writerOpen) =>
            \/ pc' = pc /\ (frag' = frag \/ fifo' = Append(fifo, frag[1].text))
            \/ stage' /= "run"]_vars
    /\ [][ReadsFragment => BetweenEvents /\ ~writerOpen /\ fifo = <<>>]_vars
    /\ [][(ReadsFragment /\ ~frag[1].whole) =>
            /\ pc' = "loop" /\ evt'.act = "nonjson"
            /\ UNCHANGED <<pidFile, tmpFile, PORT_FORWARD_LIST, procs>>]_vars
    /\ [][(ReadsFragment /\ frag[1].whole /\ frag[1].text.action = "bound") =>
            (Started /= {}) = ~HasRecord(pidFile, frag[1].text.port)]_vars

\* C29 witness: no complete line was ever written; the writer left the whole
\* object of bound(80) without its separator and closed, and the manager has
\* started the tunnel for port 80 from it
C29_Witness ==
    /\ nlines = 0 /\ ~writerOpen /\ frag = <<>>
    /\ pc = "fwd_sleep" /\ cur.port = 80
    /\ LiveTunnelsOf(80) /= {}

----------------------------------------------------------------------------
\* A listing that fails.

\* the step is the close handler of a reconciliation listing that failed
ClosesFailedListing ==
    /\ BagIn(FailedListing, passes)
    /\ passes' = passes (-) SetToBag({FailedListing})

\* the keys for which the step writes an unbound event
NewUnbound ==
    {<<NewEvents[i].protocol, NewEvents[i].port>> :
        i \in {j \in 1 .. Len(NewEvents) :
                 NewEvents[j].type = "port" /\ NewEvents[j].action = "unbound"}}

\* C30 (as claimed): the close of a reconciliation listing that failed removes
\* from boundPorts no key of a socket that is listening, and emits no unbound
\* event for it.
C30_FailedListingHarmless ==
    [][ClosesFailedListing =>
        \A k \in BoundSet \cap listening :
            k \in BoundSet' /\ k \notin NewUnbound]_vars

----------------------------------------------------------------------------
\* A listing that closes late.

\* the monitor on a host whose ports, once open, stay open: a key in boundPorts
\* is listening since before its bound event, and every listing sampled after
\* that event shows it
NextOpenOnly ==
    \/ \E sock \in MonSockets : Open(sock)
    \/ ContSample
    \/ \E line \in MonSockets : ContLine(line)
    \/ \E ok \in BOOLEAN : RecStart(ok)
    \/ \E currentPorts \in Listings(Keys) : RecClose(currentPorts)
    \/ Drain

SpecOpenOnly == InitMon /\ [][NextOpenOnly]_vars

\* the step is the close handler of a reconciliation listing whose lines left
\* currentPorts
ClosesListing(currentPorts) ==
    /\ BagIn(currentPorts, passes)
    /\ passes' = passes (-) SetToBag({currentPorts})

\* C31 (as claimed): an unbound event is written for a key only when a listing
\* sampled after the key's most recent bound event lacks it.  Where ports stay
\* open no such listing exists, so the close of a listing that succeeded writes
\* no unbound event and removes no key, also when the listing was sampled
\* before the continuous pass added the key.
C31_NoSpuriousUnbound ==
    /\ [](BoundSet \subseteq listening)
    /\ [][\A currentPorts \in SUBSET Keys :
            ClosesListing(currentPorts) => NewUnbound = {} /\ BoundSet' = BoundSet]_vars

----------------------------------------------------------------------------
\* Convergence.

\* the ports of the sockets socks that the monitor reports
MonitoredPorts(socks) == {sock[2] : sock \in {s \in socks : shouldMonitorPort(s[2])}}

\* C32: if from some time on the listening sockets do not change and no listing
\* fails, and no tunnel start fails, then with the monitor's timers firing, the
\* manager's script running on and signalled tunnels exiting, from some time on
\* the PID file holds a record for exactly the listening ports above 1023.
C32_Convergence ==
    \A socks \in SUBSET SessionSockets :
        (/\ <>[](listening = socks)
         /\ <>[](~BagIn(FailedListing, passes))
         /\ []~startFailed)
        => <>[](RecordPorts(pidFile) = MonitoredPorts(socks))


\* C32 witness: tcp:3000 is listening, it was reported unbound and then bound
\* again, the manager has processed both and holds the record of a live tunnel,
\* no tunnel start failed, and the monitor's listings are quiet
C32_Witness ==
    /\ listening = SessionSockets /\ BoundSet = SessionSockets
    /\ passes = EmptyBag /\ contLines = {}
    /\ pc = "loop" /\ fifo = <<>>
    /\ hist[3000] = <<"unbound", "bound">>
    /\ RecordPorts(pidFile) = {3000}
    /\ LiveTunnelsOf(3000) /= {}
    /\ ~startFailed

----------------------------------------------------------------------------
\* What the shutdown leaves on disk.

\* the script has ended and its traps ran cleanup_individual_forwards: every
\* exit but the one for a missing parameter, which comes before the traps are set
CleanupFinished == stage = "gone" /\ trigger /= "noparam"

\* C33 (as claimed): once the shutdown cleanup has finished, neither the PID
\* file, nor its cleanup copy, nor the rewrite temp file of stop_forwarding_port
\* exists, wherever the script was when the exit trigger arrived.
C33_NoArtifactLeft ==
    CleanupFinished => ~pidFile.exists /\ ~copyFile.exists /\ ~tmpFile.exists

----------------------------------------------------------------------------
\* The reconciliation timer.

\* C34 (as claimed): the monitor runs one reconciliation timer, also after the
\* continuous listing child has been restarted any number of times.
C34_OneTimer == timers = 1

====
